---- MODULE Spec2Model ----
(***************************************************************************)
(* A model of quiche/dep.py (with the parts of quiche/cache.py it calls):  *)
(* the target registry, the relevant-parameter gathering, the full target  *)
(* key, the two-tier cache and the freshness / rebuild algorithm behind    *)
(* create and create_brave.                                                *)
(*                                                                         *)
(* Values produced by task functions are uninterpreted terms               *)
(* [f, args, kw]: the function's name, the positional input values and     *)
(* the keyword bindings it was called with.  Two terms are equal exactly   *)
(* when the function was called with the same arguments.                   *)
(***************************************************************************)
EXTENDS Integers, Sequences, FiniteSets, TLC

(* ------------------------------ bounds -------------------------------- *)

\* The wall clock (time.time()) is modelled as an integer that never
\* decreases; operations are enabled only while it stays within MaxClock.
MaxClock == 1

\* The largest knockout set passed to create / create_brave.
MaxKnockout == 1

(* --------------------------- basic vocabulary ------------------------- *)

\* Python's None, as the value params.get(pn, None) yields for an unbound name.
None == 0

\* Parameter values callers bind (small ints, pickled with BININT1).
ParamValues == {3, 128, 129}

ParamNames == {"times", "value"}

\* ASCII of the parameter names (Python compares and pickles str by code point).
NameBytes == [times |-> <<116, 105, 109, 101, 115>>,
              value |-> <<118, 97, 108, 117, 101>>,
              id |-> <<105, 100>>, i |-> <<105>>, d |-> <<100>>]

Flags == {"ephemeral", "volatile"}

NoName == "-"

NoValue == [f |-> "NoValue", args |-> <<>>, kw |-> {}]

\* dep.NotAvailable: the sentinel get_cached returns for a miss.
NotAvailable == [f |-> "NotAvailable", args |-> <<>>, kw |-> {}]

\* A params dictionary is a set of <<name, value>> pairs with distinct names.
ParamsGet(params, pn) ==
  IF \E b \in params : b[1] = pn
    THEN (CHOOSE b \in params : b[1] = pn)[2]
    ELSE None

ParamsHas(params, pn) == \E b \in params : b[1] = pn

\* The element of a one-element set.  The({F(x) : x \in {e}}) is F(e) with
\* e evaluated once, however often F uses it.
The(S) == CHOOSE x \in S : TRUE

RECURSIVE SeqLess(_, _)
\* Python's str.__lt__ on the code points of two names.
SeqLess(a, b) ==
  IF Len(b) = 0 THEN FALSE
  ELSE IF Len(a) = 0 THEN TRUE
  ELSE IF Head(a) # Head(b) THEN Head(a) < Head(b)
  ELSE SeqLess(Tail(a), Tail(b))

StrLess(p, q) == SeqLess(NameBytes[p], NameBytes[q])

(* ------------------------- the full target key ------------------------ *)

\* pickle (protocol 4) of one value bound to a parameter: None is the opcode
\* N; an int in 0..255 is BININT1: K and the byte.
PickleValue(v) == IF v = None THEN <<78>> ELSE <<75, v>>

\* SHORT_BINUNICODE <len> <utf-8>, MEMOIZE.
PickleName(pn) == <<140, Len(NameBytes[pn])>> \o NameBytes[pn] \o <<148>>

\* One (pn, value) pair: name, value, TUPLE2, MEMOIZE.
PicklePair(pn, v) == PickleName(pn) \o PickleValue(v) \o <<134, 148>>

RECURSIVE PicklePairs(_, _)
PicklePairs(pnames, params) ==
  IF pnames = <<>> THEN <<>>
  ELSE PicklePair(Head(pnames), ParamsGet(params, Head(pnames)))
         \o PicklePairs(Tail(pnames), params)

\* The opcode closing a tuple of n items already on the stack (n in 1..3),
\* followed by MEMOIZE.
TupleClose(n) == <<132 + n, 148>>

\* params__bytes: pickle.dumps(tuple((pn, params.get(pn, None)) for pn in
\* pnames)).  The body is preceded by PROTO 4 and, when it is 4 bytes or
\* longer, a FRAME opcode with the 8-byte little-endian body length.
params__bytes(pnames, params) ==
  LET n == Len(pnames)
      body == IF n = 0 THEN <<41, 46>>
              ELSE IF n <= 3
                THEN PicklePairs(pnames, params) \o TupleClose(n) \o <<46>>
                ELSE <<40>> \o PicklePairs(pnames, params) \o <<116, 148, 46>>
  IN IF Len(body) < 4
       THEN <<128, 4>> \o body
       ELSE <<128, 4, 149, Len(body) % 256, Len(body) \div 256, 0, 0, 0, 0, 0, 0>>
              \o body

IsCont(b) == b >= 128 /\ b <= 191

\* The length of the well-formed UTF-8 sequence starting at bs[1], or 0 when
\* bs[1] starts none (bytes.decode then emits U+FFFD for that byte).
Utf8Len(bs) ==
  LET b1 == bs[1]
      b2 == IF Len(bs) >= 2 THEN bs[2] ELSE 0
      b3 == IF Len(bs) >= 3 THEN bs[3] ELSE 0
      b4 == IF Len(bs) >= 4 THEN bs[4] ELSE 0
  IN IF b1 < 128 THEN 1
     ELSE IF b1 >= 194 /\ b1 <= 223 /\ IsCont(b2) THEN 2
     ELSE IF b1 >= 224 /\ b1 <= 239 /\ IsCont(b2) /\ IsCont(b3)
             /\ (b1 = 224 => b2 >= 160) /\ (b1 = 237 => b2 <= 159) THEN 3
     ELSE IF b1 >= 240 /\ b1 <= 244 /\ IsCont(b2) /\ IsCont(b3) /\ IsCont(b4)
             /\ (b1 = 240 => b2 >= 144) /\ (b1 = 244 => b2 <= 143) THEN 4
     ELSE 0

\* The code point of the well-formed sequence of length n at the head of bs.
Utf8Point(bs, n) ==
  IF n = 1 THEN bs[1]
  ELSE IF n = 2 THEN (bs[1] - 192) * 64 + (bs[2] - 128)
  ELSE IF n = 3 THEN (bs[1] - 224) * 4096 + (bs[2] - 128) * 64 + (bs[3] - 128)
  ELSE (bs[1] - 240) * 262144 + (bs[2] - 128) * 4096 + (bs[3] - 128) * 64
         + (bs[4] - 128)

\* When bs[1] starts no well-formed sequence: the number of bytes the decoder
\* replaces by one U+FFFD (the longest prefix that could still begin a
\* well-formed sequence, at least the one byte).
Utf8BadLen(bs) ==
  LET b1 == bs[1]
      b2 == IF Len(bs) >= 2 THEN bs[2] ELSE 0
      b3 == IF Len(bs) >= 3 THEN bs[3] ELSE 0
      ok2 == /\ IsCont(b2)
             /\ (b1 = 224 => b2 >= 160) /\ (b1 = 237 => b2 <= 159)
             /\ (b1 = 240 => b2 >= 144) /\ (b1 = 244 => b2 <= 143)
  IN IF b1 >= 224 /\ b1 <= 239 /\ ok2 THEN 2
     ELSE IF b1 >= 240 /\ b1 <= 244 /\ ok2 THEN (IF IsCont(b3) THEN 3 ELSE 2)
     ELSE 1

RECURSIVE DecodeReplace(_)
\* bytes.decode("utf-8", errors="replace"): the code points of the string;
\* bytes that form no well-formed sequence become U+FFFD (65533).
DecodeReplace(bs) ==
  IF bs = <<>> THEN <<>>
  ELSE LET n == Utf8Len(bs)
       IN IF n = 0
            THEN <<65533>> \o DecodeReplace(SubSeq(bs, Utf8BadLen(bs) + 1, Len(bs)))
            ELSE <<Utf8Point(bs, n)>> \o DecodeReplace(SubSeq(bs, n + 1, Len(bs)))

\* The text after the colon of a full target key.
KeyText(relevant, params) == DecodeReplace(params__bytes(relevant, params))

\* The parameter lists without repetition and the values bound to them: the
\* key texts of these are computed once and looked up afterwards.
KeyLists ==
  {<<>>} \cup {<<p>> : p \in ParamNames}
         \cup {l \in ParamNames \X ParamNames : l[1] # l[2]}

KeyTexts ==
  UNION {{[relevant |-> l, values |-> vs,
           text |-> KeyText(l, {<<l[i], vs[i]>> : i \in 1..Len(l)})] :
            vs \in [1..Len(l) -> ParamValues \cup {None}]} : l \in KeyLists}

\* mix_target: target + ':' + the decoded parameter bytes.  The key is kept
\* as the pair <<target, text after the colon>>.
mix_target(target, relevant, params) ==
  LET vs == [i \in 1..Len(relevant) |-> ParamsGet(params, relevant[i])]
  IN IF relevant \in KeyLists
       THEN <<target, (CHOOSE e \in KeyTexts :
                         e.relevant = relevant /\ e.values = vs).text>>
       ELSE <<target, KeyText(relevant, params)>>

(* ----------------------------- the registry --------------------------- *)

VARIABLES
  KNOWN_TARGETS,    \* name -> (inputs, params, function, flags)
  TARGET_ALIASES,   \* alias -> name
  TARGET_GENERATORS, \* the OrderedDict: the (pattern, generator) items in order
  CACHED_VALUES,    \* the in-memory table: full target key -> (ts, value)
  CACHE_FILE,       \* the module global naming the shelve file
  shelf,            \* the shelve file ".quiche": full target key -> (ts, value)
  files,            \* the other shelve files: file name -> its contents
  clock,            \* what time.time() returned last
  pc,               \* "idle", or "find_target" while a call is inside the alias loop
  walk,             \* the loop variable of that find_target call
  call              \* the call that is inside the alias loop

vars == <<KNOWN_TARGETS, TARGET_ALIASES, TARGET_GENERATORS, CACHED_VALUES,
          CACHE_FILE, shelf, files, clock, pc, walk, call>>

\* d with key k bound to v (Python's d[k] = v).
Put(d, k, v) == [x \in DOMAIN d \cup {k} |-> IF x = k THEN v ELSE d[x]]

\* d without key k (Python's del d[k], when present).
Del(d, k) == [x \in DOMAIN d \ {k} |-> d[x]]

\* The tuple (inputs, params, function, flags) stored in KNOWN_TARGETS.  The
\* function is named; obj is the object the closure of add_object holds and
\* lead the arguments the wrapper of a generated target passes first.
Task(inputs, params, function, flags) ==
  [inputs |-> inputs, params |-> params, function |-> function,
   flags |-> flags, obj |-> NoValue, lead |-> <<>>]

\* The outcome of the while loop of find_target (lines 331-332) started at
\* target: the first name of the chain that is no alias.  A chain that is
\* still inside TARGET_ALIASES after as many steps as there are aliases has
\* repeated a name, so the loop never ends: the outcome is then NoName.
RECURSIVE AliasWalk(_, _, _)
AliasWalk(aliases, target, fuel) ==
  IF target \notin DOMAIN aliases THEN target
  ELSE IF fuel = 0 THEN NoName
  ELSE AliasWalk(aliases, aliases[target], fuel - 1)

(* ------------------------- target generators -------------------------- *)

\* The target names that consist of a stem and a variable rest.
Spelling ==
  ("step_start" :> <<"step_", "start">>) @@ ("step_0" :> <<"step_", "0">>)
    @@ ("step_1" :> <<"step_", "1">>) @@ ("step_2" :> <<"step_", "2">>)

Stem(name) == IF name \in DOMAIN Spelling THEN Spelling[name][1] ELSE name

Rest(name) == IF name \in DOMAIN Spelling THEN Spelling[name][2] ELSE ""

\* The name spelled stem + rest.
Name(stem, rest) ==
  IF \E n \in DOMAIN Spelling : Spelling[n] = <<stem, rest>>
    THEN CHOOSE n \in DOMAIN Spelling : Spelling[n] = <<stem, rest>>
    ELSE IF rest = "" THEN stem ELSE NoName

\* The format strings with a replacement field: the text before the field
\* and the field's name ("" for the unnamed field {}).  Every other string
\* is literal text.
Slots ==
  ("step_{next}" :> <<"step_", "next">>) @@ ("step_{iter}" :> <<"step_", "iter">>)
    @@ ("step_{n}" :> <<"step_", "n">>) @@ ("step_{}" :> <<"step_", "">>)

\* int() of a decimal numeral and str() of the number.
Decimal == ("0" :> 0) @@ ("1" :> 1) @@ ("2" :> 2)

Numeral(n) == CHOOSE d \in DOMAIN Decimal : Decimal[d] = n

\* str.format(**gd) without positional arguments: an unnamed field raises
\* IndexError, a field gd does not bind raises KeyError.
Format(s, gd) ==
  IF s \notin DOMAIN Slots THEN [err |-> "", text |-> s]
  ELSE The({IF slot[2] = "" THEN [err |-> "IndexError", text |-> NoName]
            ELSE IF slot[2] \notin DOMAIN gd THEN [err |-> "KeyError", text |-> NoName]
            ELSE [err |-> "", text |-> Name(slot[1], gd[slot[2]])] :
              slot \in {Slots[s]}})

\* The list comprehension [x.format(**gd) for x in templates], or the first
\* error raised in it.
FormatAll(templates, gd) ==
  The({IF \A i \in 1..Len(made) : made[i].err = ""
         THEN [err |-> "", texts |-> [i \in 1..Len(made) |-> made[i].text]]
         ELSE [err |-> made[CHOOSE i \in 1..Len(made) :
                              /\ made[i].err # ""
                              /\ \A j \in 1..(i - 1) : made[j].err = ""].err,
               texts |-> <<>>] :
         made \in {[i \in 1..Len(templates) |-> Format(templates[i], gd)]}})

\* The pattern tre a decorator compiles from its output: the escaped text
\* before the field, the group's name and what the group matches: "any" for
\* .+ (template_task, lines 161-165), "digits" for [0-9]+ (iter_task, lines
\* 202-203), "none" for an output without a field.
Pattern(stem, group, class) == [stem |-> stem, group |-> group, class |-> class]

\* re.match(tre, name): the match anchors at the start of the name only,
\* and a group takes the whole rest of the name.  [hit, gd]: gd is
\* m.groupdict(), which holds the named groups only.
Match(tre, name) ==
  IF tre.class = "none"
    THEN [hit |-> Stem(name) = tre.stem \/ name = tre.stem, gd |-> <<>>]
  ELSE IF /\ name \in DOMAIN Spelling /\ Stem(name) = tre.stem
          /\ (tre.class = "digits" => Rest(name) \in DOMAIN Decimal)
    THEN [hit |-> TRUE,
          gd |-> IF tre.group = "" THEN <<>> ELSE tre.group :> Rest(name)]
  ELSE [hit |-> FALSE, gd |-> <<>>]

\* The values the wrappers of generated targets pass first: the match
\* object (line 178) and the number nval (line 231).
MatchValue(name) == [f |-> "re.match", args |-> <<>>, kw |-> {<<name, None>>}]

IntValue(n) == [f |-> "int", args |-> <<>>, kw |-> {<<"n", n>>}]

\* No descriptor: what a factory that raised hands back.
NoTask == [inputs |-> <<>>, params |-> <<>>, function |-> "", flags |-> {},
           obj |-> NoValue, lead |-> <<>>]

\* iter_task's gen_target without the step back of line 214: iter is the
\* number the name holds.
IterValuesSameStep(gd) ==
  IF "iter" \notin DOMAIN gd /\ "next" \in DOMAIN gd
    THEN [ival |-> gd["next"], nval |-> Decimal[gd["next"]]]
  ELSE IF "iter" \in DOMAIN gd /\ "next" \notin DOMAIN gd
    THEN [ival |-> gd["iter"], nval |-> Decimal[gd["iter"]] + 1]
  ELSE IF "iter" \notin DOMAIN gd \/ "next" \notin DOMAIN gd
    THEN [ival |-> "start", nval |-> 0]
  ELSE [ival |-> gd["iter"], nval |-> Decimal[gd["next"]]]

\* Lines 208-226 of iter_task's gen_target: ival and nval from the groups
\* of the match; a group the pattern has not is IndexError, caught.  ival is
\* kept as the text format() makes of it.
IterValues(gd) ==
  IF "iter" \notin DOMAIN gd /\ "next" \in DOMAIN gd
    THEN [ival |-> IF Decimal[gd["next"]] <= 0 THEN "start"
                   ELSE Numeral(Decimal[gd["next"]] - 1),
          nval |-> Decimal[gd["next"]]]
  ELSE IF "iter" \in DOMAIN gd /\ "next" \notin DOMAIN gd
    THEN [ival |-> gd["iter"], nval |-> Decimal[gd["iter"]] + 1]
  ELSE IF "iter" \notin DOMAIN gd \/ "next" \notin DOMAIN gd
    THEN [ival |-> "start", nval |-> 0]
  ELSE [ival |-> gd["iter"], nval |-> Decimal[gd["next"]]]

\* What the gen_target of iter_task formats with (lines 228-229) and what
\* its wrapper passes first (line 231).
IterFields(gd) ==
  The({[fields |-> ("iter" :> v.ival) @@
                   ("next" :> IF v.nval \in {Decimal[d] : d \in DOMAIN Decimal}
                                THEN Numeral(v.nval) ELSE NoName),
        lead |-> <<IntValue(v.nval)>>] :
         v \in {IterValues(gd)}})

\* One item of TARGET_GENERATORS: the key tre and the value (gen_target,
\* (inputs, params, function, flags)); kind tells the gen_target of
\* template_task from that of iter_task.
Generator(tre, kind, inputs, params, function, flags) ==
  [tre |-> tre, kind |-> kind, inputs |-> inputs, params |-> params,
   function |-> function, flags |-> flags]

\* gen_target of template_task (lines 167-181) and of iter_task (lines
\* 205-234): [err, desc].  The inputs are formatted first, then the params,
\* and the first field that cannot be formatted raises.
gen_target(gen, gd, name) ==
  The({The({IF made.err # "" THEN [err |-> made.err, desc |-> NoTask]
            ELSE [err |-> "",
                  desc |-> [inputs |-> SubSeq(made.texts, 1, Len(gen.inputs)),
                            params |-> SubSeq(made.texts, Len(gen.inputs) + 1,
                                              Len(made.texts)),
                            function |-> gen.function, flags |-> gen.flags,
                            obj |-> NoValue, lead |-> with.lead]] :
              made \in {FormatAll(gen.inputs \o gen.params, with.fields)}}) :
         with \in {IF gen.kind = "template"
                     THEN [fields |-> gd, lead |-> <<MatchValue(name)>>]
                     ELSE IterFields(gd)}})

\* Lines 339-345 for one generator: the match, then gen(m, stuff); err
\* "NoMatch" when the pattern does not match the name.
Attempt(gen, name) ==
  The({IF m.hit THEN gen_target(gen, m.gd, name)
       ELSE [err |-> "NoMatch", desc |-> NoTask] :
         m \in {Match(gen.tre, name)}})

RECURSIVE GenerateFirstMatch(_, _, _)
\* Lines 338-345 without the try: the first generator that matches decides,
\* and when its gen_target raises the name is unknown.
GenerateFirstMatch(generators, i, name) ==
  IF i > Len(generators) THEN [status |-> "UnknownTarget", desc |-> NoTask]
  ELSE The({IF g.err = "" THEN [status |-> "ok", desc |-> g.desc]
            ELSE IF g.err = "NoMatch" THEN GenerateFirstMatch(generators, i + 1, name)
            ELSE [status |-> "UnknownTarget", desc |-> NoTask] :
              g \in {Attempt(generators[i], name)}})

RECURSIVE Generate(_, _, _)
\* Lines 338-345 from the i-th generator on: the descriptor of the first
\* generator that matches and whose gen_target returns; one that raises is
\* passed over by the bare except.
Generate(generators, i, name) ==
  IF i > Len(generators) THEN [status |-> "UnknownTarget", desc |-> NoTask]
  ELSE The({IF g.err = "" THEN [status |-> "ok", desc |-> g.desc]
            ELSE Generate(generators, i + 1, name) :
              g \in {Attempt(generators[i], name)}})

\* TARGET_GENERATORS[tre] = value: a key the OrderedDict holds keeps its
\* place, a new key goes to the end.
PutGenerator(generators, gen) ==
  IF \E i \in 1..Len(generators) : generators[i].tre = gen.tre
    THEN [i \in 1..Len(generators) |->
            IF generators[i].tre = gen.tre THEN gen ELSE generators[i]]
    ELSE Append(generators, gen)

\* find_target: status "ok" with the descriptor, "UnknownTarget" for the
\* ValueError of line 348, or "loop" when the alias loop never ends.
find_target(reg, target) ==
  The({IF name = NoName THEN [status |-> "loop", desc |-> NoTask]
       ELSE IF name \in DOMAIN reg.known
         THEN [status |-> "ok", desc |-> reg.known[name]]
         ELSE Generate(reg.generators, 1, name) :
         name \in {AliasWalk(reg.aliases, target, Cardinality(DOMAIN reg.aliases))}})

(* ------------------------ the task decorators ------------------------- *)

\* The Python values handed to the decorators: a list (or tuple) of
\* strings, a string, or something that is neither.
PyList(items) == [type |-> "list", text |-> "", items |-> items]

PyStr(text) == [type |-> "str", text |-> text, items |-> <<>>]

PyInt == [type |-> "int", text |-> "", items |-> <<>>]

\* The characters of the strings that are iterated over.
Chars == ("id" :> <<"i", "d">>) @@ ("C" :> <<"C">>)

\* list(x): the items of a list, the characters of a string.
Items(x) == IF x.type = "list" THEN x.items ELSE Chars[x.text]

\* isinstance(x, (list, tuple)) and isinstance(x, str).
IsSequence(x) == x.type = "list"

IsString(x) == x.type = "str"

\* What a decorator leaves: the error it raised ("" for none) and the two
\* registries it writes.
Registration(err, known, generators) ==
  [err |-> err, known |-> known, generators |-> generators]

\* task(inputs, params, output, flags)(function), lines 101-115.  The test
\* of line 105 is the test of line 101 once more: it looks at inputs.
task_call(reg, inputs, params, output, function, flags) ==
  IF ~IsSequence(inputs) THEN Registration("ValueError", reg.known, reg.generators)
  ELSE IF ~IsSequence(inputs) THEN Registration("ValueError", reg.known, reg.generators)
  ELSE IF ~IsString(output) THEN Registration("ValueError", reg.known, reg.generators)
  ELSE Registration("", Put(reg.known, output.text,
                            Task(Items(inputs), Items(params), function, flags)),
                    reg.generators)

\* Lines 139-165: the pattern made of a template_task output.
TemplatePattern(output) ==
  IF output \in DOMAIN Slots
    THEN Pattern(Slots[output][1], Slots[output][2], "any")
    ELSE Pattern(output, "", "none")

\* template_task(inputs, params, output, flags)(function), lines 126-185.
template_task_call(reg, inputs, params, output, function, flags) ==
  IF ~IsSequence(inputs) THEN Registration("ValueError", reg.known, reg.generators)
  ELSE IF ~IsSequence(params) THEN Registration("ValueError", reg.known, reg.generators)
  ELSE IF ~IsString(output) THEN Registration("ValueError", reg.known, reg.generators)
  ELSE Registration("", reg.known,
                    PutGenerator(reg.generators,
                                 Generator(TemplatePattern(output.text), "template",
                                           Items(inputs), Items(params), function, flags)))

\* Lines 201-203: the pattern made of an iter_task output.
IterPattern(output) ==
  IF output \in DOMAIN Slots
    THEN Pattern(Slots[output][1], Slots[output][2], "digits")
    ELSE Pattern(output, "", "none")

\* iter_task(inputs, params, output, flags)(function), lines 192-238: params
\* is not looked at; output.format(iter=..., next=...) of line 201 raises
\* for any other field.
iter_task_call(reg, inputs, params, output, function, flags) ==
  IF ~IsSequence(inputs) THEN Registration("ValueError", reg.known, reg.generators)
  ELSE IF ~IsString(output) THEN Registration("ValueError", reg.known, reg.generators)
  ELSE IF Format(output.text, ("iter" :> "0") @@ ("next" :> "0")).err # ""
    THEN Registration(Format(output.text, ("iter" :> "0") @@ ("next" :> "0")).err,
                      reg.known, reg.generators)
  ELSE Registration("", reg.known,
                    PutGenerator(reg.generators,
                                 Generator(IterPattern(output.text), "iter",
                                           Items(inputs), Items(params), function, flags)))

(* -------------------- relevant-parameter gathering -------------------- *)

\* Lines 432-442: the position scan and the insert of one parameter into rv.
InsertParam(rv, param) ==
  LET hits == {i \in 1..Len(rv) : StrLess(param, rv[i]) \/ param = rv[i]}
  IN IF hits = {} THEN Append(rv, param)
     ELSE LET i == CHOOSE j \in hits : \A k \in hits : j <= k
          IN IF param = rv[i] THEN rv
             ELSE SubSeq(rv, 1, i - 1) \o <<param>> \o SubSeq(rv, i, Len(rv))

RECURSIVE InsertParams(_, _)
\* The inner for loop of line 431 over the parameters gathered for one input.
InsertParams(rv, ps) ==
  IF ps = <<>> THEN rv
  ELSE The({InsertParams(rv2, Tail(ps)) : rv2 \in {InsertParam(rv, Head(ps))}})

\* The deepest chain of calls a registry without a dependency cycle can
\* cause; a deeper one has met a name twice and recurses until Python's
\* RecursionError.
MaxDepth(reg) ==
  Cardinality(DOMAIN reg.known \cup DOMAIN reg.aliases
                \cup (IF reg.generators = <<>> THEN {} ELSE DOMAIN Spelling)) + 1

RECURSIVE gather_relevant_parameters(_, _, _)
RECURSIVE GatherInputs(_, _, _, _)
\* gather_relevant_parameters(target): [err, at, rv]; err is "" when it
\* returns rv, else the error raised and the name it was raised for.
gather_relevant_parameters(reg, target, depth) ==
  IF depth > MaxDepth(reg) THEN [err |-> "RecursionError", at |-> target, rv |-> <<>>]
  ELSE The({IF f.status # "ok" THEN [err |-> f.status, at |-> target, rv |-> <<>>]
            ELSE GatherInputs(reg, f.desc.inputs, f.desc.params, depth) :
              f \in {find_target(reg, target)}})

\* The for loop of line 430 over the remaining inputs, rv so far.
GatherInputs(reg, inputs, rv, depth) ==
  IF inputs = <<>> THEN [err |-> "", at |-> NoName, rv |-> rv]
  ELSE The({IF g.err # "" THEN g
            ELSE The({GatherInputs(reg, Tail(inputs), rv2, depth) :
                        rv2 \in {InsertParams(rv, g.rv)}}) :
              g \in {gather_relevant_parameters(reg, Head(inputs), depth + 1)}})

(* ---------------------------- the two tiers --------------------------- *)

\* get_cache_time returns None for a target cached nowhere.
NoTime == -1

\* The machine state a call works on: the two tiers, the clock, the number
\* of clock reads the call has made, the read before which the clock
\* advances (tickAt, 0 for never) and the task functions invoked so far.
\* time.time() never goes back but may return the same value twice.
ReadClock(st) ==
  [st EXCEPT !.reads = st.reads + 1,
             !.clock = IF st.reads + 1 = st.tickAt THEN st.clock + 1 ELSE st.clock]

\* cache.now() / time.time() after the read.
Now(st) == st.clock

\* Line 31: the cache file the module starts with.
DefaultCacheFile == ".quiche"

\* The file names passed to set_cache_file.
FileNames == {DefaultCacheFile, "other.quiche"}

\* The contents of the shelve file the global CACHE_FILE names: every
\* cache.* call of dep.py is handed CACHE_FILE (lines 281, 297, 315).
Shelf(st) == IF st.file = DefaultCacheFile THEN st.disk ELSE st.files[st.file]

\* That file with its contents replaced.
WriteShelf(st, contents) ==
  IF st.file = DefaultCacheFile THEN [st EXCEPT !.disk = contents]
  ELSE [st EXCEPT !.files = Put(st.files, st.file, contents)]

\* get_cache_time: memory first, then cache.check_time on the shelf (None
\* when the shelf file does not exist or holds no such key).
get_cache_time(st, target, pnames, params) ==
  LET full_target == mix_target(target, pnames, params)
  IN IF full_target \in DOMAIN st.mem THEN st.mem[full_target].ts
     ELSE IF full_target \in DOMAIN Shelf(st) THEN Shelf(st)[full_target].ts
     ELSE NoTime

\* get_cached: memory first, then cache.load_any; any failure of the load is
\* (None, NotAvailable).
get_cached(st, target, pnames, params) ==
  LET full_target == mix_target(target, pnames, params)
  IN IF full_target \in DOMAIN st.mem THEN st.mem[full_target]
     ELSE IF full_target \in DOMAIN Shelf(st) THEN Shelf(st)[full_target]
     ELSE [ts |-> NoTime, val |-> NotAvailable]

\* cache.save_object: shelf[key] = (now(), obj).  The values of the model
\* pickle, and shelve returns what was stored.
save_any(st, value, full_target) ==
  The({The({WriteShelf(t, contents) :
              contents \in {Put(Shelf(t), full_target, [ts |-> Now(t), val |-> value])}}) :
         t \in {ReadClock(st)}})

\* cache_value without the test of line 314: every value is saved on disk.
cache_valueOnDisk(st, target, pnames, params, value, flags) ==
  LET full_target == mix_target(target, pnames, params)
      s2 == ReadClock(save_any(st, value, full_target))
      s3 == IF "volatile" \notin flags
              THEN [s2 EXCEPT !.mem = Put(s2.mem, full_target, [ts |-> Now(s2), val |-> value])]
              ELSE [s2 EXCEPT !.mem = Del(s2.mem, full_target)]
  IN [st |-> s3, ts |-> Now(s2)]

\* cache_value without the test of line 317: every value is kept in memory.
cache_valueInMemory(st, target, pnames, params, value, flags) ==
  LET full_target == mix_target(target, pnames, params)
      s1 == IF "ephemeral" \notin flags THEN save_any(st, value, full_target) ELSE st
      s2 == ReadClock(s1)
  IN [st |-> [s2 EXCEPT !.mem = Put(s2.mem, full_target, [ts |-> Now(s2), val |-> value])],
      ts |-> Now(s2)]

\* cache_value: [st, ts], the state after the call and the timestamp returned.
cache_value(st, target, pnames, params, value, flags) ==
  LET full_target == mix_target(target, pnames, params)
      s1 == IF "ephemeral" \notin flags THEN save_any(st, value, full_target) ELSE st
      s2 == ReadClock(s1)
      ts == Now(s2)
      s3 == IF "volatile" \notin flags
              THEN [s2 EXCEPT !.mem = Put(s2.mem, full_target, [ts |-> ts, val |-> value])]
              ELSE [s2 EXCEPT !.mem = Del(s2.mem, full_target)]
  IN [st |-> s3, ts |-> ts]

(* ---------------------------- task functions -------------------------- *)

\* The value a task function returns for its positional and keyword
\* arguments.  offer (add_object) returns the object it closes over; gather
\* (add_gather) returns its inputs; any other function is uninterpreted.
Apply(desc, ivalues, pvalues) ==
  IF desc.function = "offer" THEN desc.obj
  ELSE [f |-> desc.function, args |-> desc.lead \o ivalues, kw |-> pvalues]

\* The calls of the model that raise instead of returning: boom raises
\* when one of its arguments is an object handed to add_object.
Raises(desc, ivalues, pvalues) ==
  /\ desc.function = "boom"
  /\ \E i \in 1..Len(ivalues) : ivalues[i].f = "object"

(* ------------------------- check_up_to_date --------------------------- *)

RECURSIVE LoadInputsUnchecked(_, _, _, _)
\* Lines 468-473 without the test of line 471: whatever get_cached returns
\* is handed to the function.
LoadInputsUnchecked(st, subparams, inputs, params) ==
  IF inputs = <<>> THEN [err |-> "", at |-> NoName, ivalues |-> <<>>]
  ELSE The({The({[err |-> rest.err, at |-> rest.at,
                  ivalues |-> <<c.val>> \o rest.ivalues] :
                   rest \in {LoadInputsUnchecked(st, Tail(subparams), Tail(inputs),
                                                 params)}}) :
              c \in {get_cached(st, Head(inputs), Head(subparams), params)}})

RECURSIVE LoadInputs(_, _, _, _)
\* Lines 468-473: [err, at, ivalues] for the inputs and their relevant
\* parameters; the ValueError of line 472 names the input.
LoadInputs(st, subparams, inputs, params) ==
  IF inputs = <<>> THEN [err |-> "", at |-> NoName, ivalues |-> <<>>]
  ELSE The({IF c.val = NotAvailable
              THEN [err |-> "MissingDependency", at |-> Head(inputs), ivalues |-> <<>>]
              ELSE The({[err |-> rest.err, at |-> rest.at,
                         ivalues |-> <<c.val>> \o rest.ivalues] :
                          rest \in {LoadInputs(st, Tail(subparams), Tail(inputs), params)}}) :
              c \in {get_cached(st, Head(inputs), Head(subparams), params)}})

\* Lines 462-465 without the test of line 462: the knockout list is ignored.
OwnTimeCached(st, target, all_relevant, params, knockout) ==
  get_cache_time(st, target, all_relevant, params)

\* Lines 462-465: the timestamp the target is compared by; None forces the
\* rebuild of a target of the knockout list.
OwnTime(st, target, all_relevant, params, knockout) ==
  IF target \in knockout THEN NoTime
  ELSE get_cache_time(st, target, all_relevant, params)

\* Line 466 without the comparison with the inputs' timestamps.
IsStaleMissing(myts, times) == myts = NoTime

\* Line 466: the target is missing, or some input is strictly newer.
IsStale(myts, times) ==
  myts = NoTime \/ \E i \in 1..Len(times) : times[i] > myts

\* Line 474: the keyword arguments, only the declared names the caller bound.
KeywordValues(pnames, params) ==
  {<<pn, ParamsGet(params, pn)>> :
     pn \in {pnames[i] : i \in {j \in 1..Len(pnames) : ParamsHas(params, pnames[j])}}}

\* The failure of a call: the state it leaves behind, the error and the name
\* the error is about.
Raise(st, err, at) == [st |-> st, err |-> err, at |-> at, ts |-> NoTime]

\* Line 475 inside a try whose except clause passes: the exception is
\* swallowed and nothing is cached.
InvokeSwallowing(st, target, desc, all_relevant, params, ivalues, pvalues) ==
  The({IF Raises(desc, ivalues, pvalues)
         THEN [st |-> s2, err |-> "", at |-> NoName,
               ts |-> get_cache_time(s2, target, all_relevant, params)]
       ELSE The({[st |-> stored.st, err |-> "", at |-> NoName, ts |-> stored.ts] :
                   stored \in {cache_value(s2, target, all_relevant, params,
                                           Apply(desc, ivalues, pvalues), desc.flags)}}) :
         s2 \in {[st EXCEPT !.calls = Append(st.calls,
                    [target |-> target,
                     key |-> mix_target(target, all_relevant, params),
                     function |-> desc.function,
                     args |-> ivalues, kw |-> pvalues])]}})

\* Line 475 and 476: the function is called and its value cached.
Invoke(st, target, desc, all_relevant, params, ivalues, pvalues) ==
  The({IF Raises(desc, ivalues, pvalues) THEN Raise(s2, "TaskError", target)
       ELSE The({[st |-> stored.st, err |-> "", at |-> NoName, ts |-> stored.ts] :
                   stored \in {cache_value(s2, target, all_relevant, params,
                                           Apply(desc, ivalues, pvalues), desc.flags)}}) :
         s2 \in {[st EXCEPT !.calls = Append(st.calls,
                    [target |-> target,
                     key |-> mix_target(target, all_relevant, params),
                     function |-> desc.function,
                     args |-> ivalues, kw |-> pvalues])]}})

\* Lines 467-476: compute and cache a new value.
Rebuild(reg, st, target, desc, all_relevant, params) ==
  The({IF loaded.err # "" THEN Raise(st, loaded.err, loaded.at)
       ELSE Invoke(st, target, desc, all_relevant, params, loaded.ivalues, pvalues) :
         loaded \in {LoadInputs(st,
                       [i \in 1..Len(desc.inputs) |->
                          gather_relevant_parameters(reg, desc.inputs[i], 1).rv],
                       desc.inputs, params)},
         pvalues \in {KeywordValues(desc.params, params)}})

RECURSIVE check_up_to_date(_, _, _, _, _)
RECURSIVE CheckInputs(_, _, _, _, _)

\* Line 459: the timestamps of the inputs, checked left to right.
CheckInputs(reg, inputs, params, knockout, st) ==
  IF inputs = <<>> THEN [st |-> st, err |-> "", at |-> NoName, times |-> <<>>]
  ELSE The({IF r.err # "" THEN [st |-> r.st, err |-> r.err, at |-> r.at, times |-> <<>>]
            ELSE The({[st |-> rest.st, err |-> rest.err, at |-> rest.at,
                       times |-> <<r.ts>> \o rest.times] :
                        rest \in {CheckInputs(reg, Tail(inputs), params, knockout, r.st)}}) :
              r \in {check_up_to_date(reg, Head(inputs), params, knockout, st)}})

\* Lines 459-479, once the descriptor and the relevant parameters are known.
Reconcile(reg, target, desc, all_relevant, params, knockout, st) ==
  The({IF checked.err # "" THEN Raise(checked.st, checked.err, checked.at)
       ELSE The({IF IsStale(myts, checked.times)
                   THEN Rebuild(reg, checked.st, target, desc, all_relevant, params)
                   ELSE [st |-> checked.st, err |-> "", at |-> NoName, ts |-> myts] :
                   myts \in {OwnTime(checked.st, target, all_relevant, params, knockout)}}) :
         checked \in {CheckInputs(reg, desc.inputs, params, knockout, st)}})

\* check_up_to_date: [st, err, at, ts]; err is "" when it returns ts, else
\* the error raised, st being the state the raise leaves behind.
check_up_to_date(reg, target, params, knockout, st) ==
  The({IF f.status # "ok" THEN Raise(st, f.status, target)
       ELSE The({IF all_relevant.err # ""
                   THEN Raise(st, all_relevant.err, all_relevant.at)
                   ELSE Reconcile(reg, target, f.desc, all_relevant.rv, params,
                                  knockout, st) :
                   all_relevant \in {gather_relevant_parameters(reg, target, 1)}}) :
         f \in {find_target(reg, target)}})

(* ------------------------ create and create_brave --------------------- *)

\* What a call hands back: kind "ok" with the (ts, val) pair returned, or
\* the error raised and the name it is about; st is the state it leaves.
Outcome(st, kind, at, ts, val) ==
  [st |-> st, kind |-> kind, at |-> at, ts |-> ts, val |-> val]

\* Lines 497-503: the load after the check.
Loaded(reg, target, params, st) ==
  The({IF got.val = NotAvailable
         THEN Outcome(st, "BuildFailed", target, NoTime, NotAvailable)
         ELSE Outcome(st, "ok", NoName, got.ts, got.val) :
         got \in {get_cached(st, target,
                             gather_relevant_parameters(reg, target, 1).rv, params)}})

\* create: check_up_to_date, then the load of lines 497-503.
create_call(reg, target, params, knockout, st) ==
  The({IF c.err # "" THEN Outcome(c.st, c.err, c.at, NoTime, NotAvailable)
       ELSE Loaded(reg, target, params, c.st) :
         c \in {check_up_to_date(reg, target, params, knockout, st)}})

\* create_brave that checks freshness all the same: it is create.
create_brave_callChecked(reg, target, params, knockout, st) ==
  create_call(reg, target, params, knockout, st)

\* create_brave: the cached entry when there is one, else create.
create_brave_call(reg, target, params, knockout, st) ==
  The({IF rel.err # "" THEN Outcome(st, rel.err, rel.at, NoTime, NotAvailable)
       ELSE The({IF got.val = NotAvailable
                   THEN create_call(reg, target, params, knockout, st)
                   ELSE Outcome(st, "ok", NoName, got.ts, got.val) :
                   got \in {get_cached(st, target, rel.rv, params)}}) :
         rel \in {gather_relevant_parameters(reg, target, 1)}})

(* --------------------------- the registries --------------------------- *)

FlagSets == SUBSET Flags

\* quiche/unit.py: base reads the parameter "value", product multiplies it
\* by "times".
Unit(fb, fp) ==
  [base |-> Task(<<>>, <<"value">>, "base", fb),
   product |-> Task(<<"base">>, <<"times">>, "mult", fp)]

\* test.py: a chain A -> B -> C without parameters.
Chain(fa, fb, fc) ==
  [A |-> Task(<<"B">>, <<>>, "fA", fa),
   B |-> Task(<<"C">>, <<>>, "fB", fb),
   C |-> Task(<<>>, <<>>, "fC", fc)]

\* A diamond: A needs B and C, which both need D.
Diamond(fa, fb, fc, fd) ==
  [A |-> Task(<<"B", "C">>, <<>>, "fA", fa),
   B |-> Task(<<"D">>, <<>>, "fB", fb),
   C |-> Task(<<"D">>, <<>>, "fC", fc),
   D |-> Task(<<>>, <<>>, "fD", fd)]

\* A registry whose inputs relation has a cycle: A and B need each other, D
\* needs C and A, C needs nothing.
Cycle(fc, fd) ==
  [A |-> Task(<<"B">>, <<>>, "fA", {}),
   B |-> Task(<<"A">>, <<>>, "fB", {}),
   C |-> Task(<<>>, <<>>, "fC", fc),
   D |-> Task(<<"C", "A">>, <<>>, "fD", fd)]

\* The registries the decorators of the importing module may have built
\* before the first call.
Registries ==
  {Unit({"ephemeral"}, {"ephemeral"}), Unit({}, {}), Unit({"volatile"}, {})}
    \cup {Chain(f, g, f) : f \in FlagSets, g \in FlagSets}
    \cup {Diamond({}, {}, f, g) : f \in {{}, {"ephemeral"}}, g \in {{}, {"volatile"}}}

\* The params dictionaries callers pass: only the names some registered
\* target declares are ever read (lines 248 and 474).
ParamMaps ==
  IF \E t \in DOMAIN KNOWN_TARGETS : KNOWN_TARGETS[t].params # <<>>
    THEN {{}, {<<"value", None>>}, {<<"value", 128>>}, {<<"value", 129>>}}
    ELSE {{}}

\* The names callers ask for: the registered names, the aliases and a name
\* that may be unknown.
RequestNames == DOMAIN KNOWN_TARGETS \cup DOMAIN TARGET_ALIASES \cup {"latest"}

Knockouts == {K \in SUBSET DOMAIN KNOWN_TARGETS : Cardinality(K) <= MaxKnockout}

\* A call may see the clock advance once, before any one of its clock reads.
MaxTickAt == 6

AliasPairs ==
  {<<"latest", "A">>, <<"A", "latest">>, <<"latest", "product">>, <<"B", "C">>}

\* add_object is called on a registered name: it replaces that target.
ObjectTargets == DOMAIN KNOWN_TARGETS \cap {"C"}

\* The objects handed to add_object.
Obj(k) == [f |-> "object", args |-> <<>>, kw |-> {<<"id", k>>}]

Objects == {Obj(7)}

(* ------------------------------ the machine --------------------------- *)

Reg ==
  [known |-> KNOWN_TARGETS, aliases |-> TARGET_ALIASES,
   generators |-> TARGET_GENERATORS]

Start(tickAt) ==
  [mem |-> CACHED_VALUES, file |-> CACHE_FILE, disk |-> shelf, files |-> files,
   clock |-> clock, reads |-> 0, tickAt |-> tickAt, calls |-> <<>>]

NoCall == [op |-> "none", target |-> NoName, params |-> {}, knockout |-> {}]

Init ==
  /\ KNOWN_TARGETS \in Registries
  /\ TARGET_ALIASES = <<>>
  /\ TARGET_GENERATORS = <<>>
  /\ CACHED_VALUES = <<>>
  /\ CACHE_FILE = DefaultCacheFile
  /\ shelf = <<>>
  /\ files = [fn \in FileNames \ {DefaultCacheFile} |-> <<>>]
  /\ clock = 0
  /\ pc = "idle"
  /\ walk = NoName
  /\ call = NoCall

\* The outcome of the call c started in state st.
Run(c, st) ==
  IF c.op = "create"
    THEN create_call(Reg, c.target, c.params, c.knockout, st)
    ELSE create_brave_call(Reg, c.target, c.params, c.knockout, st)

\* The reads before which the clock may advance during a call that makes
\* `reads` clock reads when the clock stands still (a later advance is not
\* seen by the call).
TickPoints(reads) == 0..(IF reads < MaxTickAt THEN reads ELSE MaxTickAt)

\* The end of a call with outcome r: the tiers and the clock it leaves.  A
\* call in which a find_target never leaves the alias loop does not return:
\* the program stays in that loop.
Finish(c, r) ==
  /\ r.st.clock <= MaxClock
  /\ CACHED_VALUES' = r.st.mem
  /\ shelf' = r.st.disk
  /\ files' = r.st.files
  /\ clock' = r.st.clock
  /\ IF r.kind = "loop"
       THEN pc' = "find_target" /\ walk' = r.at /\ call' = c
       ELSE pc' = "idle" /\ walk' = NoName /\ call' = NoCall

\* The call c from its first statement to its return or raise.
Complete(c) ==
  \E tickAt \in TickPoints(Run(c, Start(0)).st.reads) :
    \E r \in {Run(c, Start(tickAt))} : Finish(c, r)

\* A call of create or create_brave.  Both start by find_target(target)
\* (line 455 and, through line 513, line 428); when the name is an alias the
\* call enters the while loop of lines 331-332, which the model runs turn by
\* turn.
Enter(c) ==
  /\ pc = "idle"
  /\ IF c.target \in DOMAIN TARGET_ALIASES
       THEN /\ pc' = "find_target" /\ walk' = c.target /\ call' = c
            /\ UNCHANGED <<CACHED_VALUES, shelf, files, clock>>
       ELSE Complete(c)
  /\ UNCHANGED <<KNOWN_TARGETS, TARGET_ALIASES, TARGET_GENERATORS, CACHE_FILE>>

create(target, params, knockout) ==
  Enter([op |-> "create", target |-> target, params |-> params,
         knockout |-> knockout])

create_brave(target, params, knockout) ==
  Enter([op |-> "create_brave", target |-> target, params |-> params,
         knockout |-> knockout])

\* One more turn of the while loop of find_target (lines 331-332).
find_target_loop ==
  /\ pc = "find_target"
  /\ walk \in DOMAIN TARGET_ALIASES
  /\ walk' = TARGET_ALIASES[walk]
  /\ UNCHANGED <<KNOWN_TARGETS, TARGET_ALIASES, TARGET_GENERATORS, CACHED_VALUES,
                 CACHE_FILE, shelf, files, clock, pc, call>>

\* The loop condition fails: find_target goes on and the call runs to its end.
find_target_exit ==
  /\ pc = "find_target"
  /\ walk \notin DOMAIN TARGET_ALIASES
  /\ Complete(call)
  /\ UNCHANGED <<KNOWN_TARGETS, TARGET_ALIASES, TARGET_GENERATORS, CACHE_FILE>>

\* add_object: the object is cached at once under the key without
\* parameters, then the target is (re-)registered.
add_object(obj, target, flags) ==
  /\ pc = "idle"
  /\ \E tickAt \in TickPoints(2) :
       \E stored \in {cache_value(Start(tickAt), target, <<>>, {}, obj, flags)} :
         /\ tickAt <= stored.st.reads
         /\ Finish(NoCall, Outcome(stored.st, "ok", NoName, stored.ts, obj))
  /\ KNOWN_TARGETS' = Put(KNOWN_TARGETS, target,
                          [Task(<<>>, <<>>, "offer", flags) EXCEPT !.obj = obj])
  /\ UNCHANGED <<TARGET_ALIASES, TARGET_GENERATORS, CACHE_FILE>>

add_alias(alias, target) ==
  /\ pc = "idle"
  /\ TARGET_ALIASES' = Put(TARGET_ALIASES, alias, target)
  /\ UNCHANGED <<KNOWN_TARGETS, TARGET_GENERATORS, CACHED_VALUES, CACHE_FILE, shelf,
                 files, clock, pc, walk, call>>

Next ==
  \/ \E target \in RequestNames, params \in ParamMaps, knockout \in Knockouts :
       create(target, params, knockout)
  \/ \E target \in RequestNames, params \in ParamMaps, knockout \in Knockouts :
       create_brave(target, params, knockout)
  \/ \E obj \in Objects, target \in ObjectTargets, flags \in FlagSets :
       add_object(obj, target, flags)

Spec == Init /\ [][Next]_vars

(* --------------------------- alias resolution ------------------------- *)

\* The program with aliases: the chain registry, to which aliases are added.
AliasInit ==
  /\ Init
  /\ KNOWN_TARGETS = Chain({}, {}, {})

AliasNext ==
  \/ \E target \in RequestNames, params \in ParamMaps, knockout \in Knockouts :
       create(target, params, knockout)
  \/ \E target \in RequestNames, params \in ParamMaps, knockout \in Knockouts :
       create_brave(target, params, knockout)
  \/ \E pair \in AliasPairs : add_alias(pair[1], pair[2])
  \/ find_target_loop
  \/ find_target_exit

AliasSpec == AliasInit /\ [][AliasNext]_vars

\* The interpreter keeps executing the call it is in: the loop turns while
\* its condition holds and is left when it fails.
AliasFairSpec ==
  AliasSpec /\ WF_vars(find_target_loop) /\ WF_vars(find_target_exit)

(* ------------------------- cyclic dependencies ------------------------ *)

\* The program with a registry whose inputs relation has a cycle.
\* The state after the importing module has registered reg: nothing is
\* cached and no call is in progress.
Imported(reg) ==
  /\ KNOWN_TARGETS = reg
  /\ TARGET_ALIASES = <<>>
  /\ TARGET_GENERATORS = <<>>
  /\ CACHED_VALUES = <<>>
  /\ CACHE_FILE = DefaultCacheFile
  /\ shelf = <<>>
  /\ files = [fn \in FileNames \ {DefaultCacheFile} |-> <<>>]
  /\ clock = 0
  /\ pc = "idle"
  /\ walk = NoName
  /\ call = NoCall

CycleInit == \E fc \in FlagSets, fd \in FlagSets : Imported(Cycle(fc, fd))

CycleNext ==
  \/ \E target \in RequestNames, params \in ParamMaps, knockout \in Knockouts :
       create(target, params, knockout)
  \/ \E target \in RequestNames, params \in ParamMaps, knockout \in Knockouts :
       create_brave(target, params, knockout)
  \/ \E obj \in Objects, target \in ObjectTargets, flags \in FlagSets :
       add_object(obj, target, flags)

CycleSpec == CycleInit /\ [][CycleNext]_vars

(* ------------------------ a task function raises --------------------- *)

\* The chain of test.py with a function for B that raises for some inputs.
Failing(fa, fb) ==
  [A |-> Task(<<"B">>, <<>>, "fA", fa),
   B |-> Task(<<"C">>, <<>>, "boom", fb),
   C |-> Task(<<>>, <<>>, "fC", {})]

ErrorInit == \E fa \in {{}, {"volatile"}}, fb \in {{}, {"ephemeral"}} : Imported(Failing(fa, fb))

ErrorNext ==
  \/ \E target \in RequestNames, params \in ParamMaps, knockout \in Knockouts :
       create(target, params, knockout)
  \/ \E target \in RequestNames, params \in ParamMaps, knockout \in Knockouts :
       create_brave(target, params, knockout)
  \/ \E obj \in Objects, target \in ObjectTargets, flags \in FlagSets :
       add_object(obj, target, flags)

ErrorSpec == ErrorInit /\ [][ErrorNext]_vars

(* ------------------- registration by the decorators ------------------- *)

\* The end of a decorator call that left r.  The decorators run while the
\* module that declares the tasks is imported: before anything is cached.
Register(r) ==
  /\ pc = "idle"
  /\ DOMAIN CACHED_VALUES = {} /\ DOMAIN shelf = {}
  /\ KNOWN_TARGETS' = r.known
  /\ TARGET_GENERATORS' = r.generators
  /\ UNCHANGED <<TARGET_ALIASES, CACHED_VALUES, CACHE_FILE, shelf, files, clock,
                 pc, walk, call>>

task(inputs, params, output, function, flags) ==
  \E r \in {task_call(Reg, inputs, params, output, function, flags)} : Register(r)

template_task(inputs, params, output, function, flags) ==
  \E r \in {template_task_call(Reg, inputs, params, output, function, flags)} :
    Register(r)

iter_task(inputs, params, output, function, flags) ==
  \E r \in {iter_task_call(Reg, inputs, params, output, function, flags)} :
    Register(r)

\* The arguments of one decorator call.
Arguments(inputs, params, output, function, flags) ==
  [inputs |-> inputs, params |-> params, output |-> output,
   function |-> function, flags |-> flags]

\* The task declarations of the model: C with its parameters in some
\* order, as a list or as the string a forgotten comma leaves, B that
\* needs C, and calls with inputs or output of the wrong type.
TaskArguments ==
  {Arguments(PyList(<<>>), p, PyStr("C"), "fC", f) :
     p \in {PyList(<<>>), PyList(<<"value", "times">>), PyStr("id")},
     f \in {{}, Flags}}
    \cup {Arguments(PyList(<<"C">>), p, PyStr("B"), "fB", {}) :
            p \in {PyList(<<>>), PyList(<<"times">>), PyList(<<"value", "times">>)}}
    \cup {Arguments(PyStr("C"), PyList(<<>>), PyStr("B"), "fB", {}),
          Arguments(PyList(<<>>), PyList(<<>>), PyInt, "fC", {})}

\* The task declarations made next to generators: C, a target whose name a
\* generator matches as well, and calls with an argument of the wrong type.
PlainArguments ==
  {Arguments(PyList(<<>>), PyList(<<>>), PyStr("C"), "fC", {}),
   Arguments(PyList(<<>>), PyList(<<>>), PyStr("step_0"), "f0", {}),
   Arguments(PyStr("C"), PyList(<<>>), PyStr("C"), "fC", {}),
   Arguments(PyList(<<>>), PyStr("id"), PyStr("C"), "fC", {}),
   Arguments(PyList(<<>>), PyList(<<>>), PyInt, "fC", {})}

\* The template_task declarations: a named field, a named field whose
\* input template has an unnamed one, an unnamed field, and calls with
\* an argument of the wrong type.
TemplateArguments ==
  {Arguments(PyList(<<"C">>), PyList(<<>>), PyStr("step_{n}"), "named", {}),
   Arguments(PyList(<<"step_{}">>), PyList(<<>>), PyStr("step_{n}"), "named", {}),
   Arguments(PyList(<<"C">>), PyList(<<>>), PyStr("step_{}"), "plain", {}),
   Arguments(PyStr("C"), PyList(<<>>), PyStr("step_{n}"), "named", {}),
   Arguments(PyList(<<"C">>), PyStr("id"), PyStr("step_{n}"), "named", {}),
   Arguments(PyList(<<"C">>), PyList(<<>>), PyInt, "named", {})}

\* The iter_task declarations: the chain step_{next} from step_{iter}, an
\* output with another field, and calls with an argument of the wrong type.
IterArguments ==
  {Arguments(PyList(<<"step_{iter}">>), PyList(<<>>), PyStr("step_{next}"), "step", {}),
   Arguments(PyList(<<"step_{iter}">>), PyList(<<>>), PyStr("step_{n}"), "step", {}),
   Arguments(PyStr("C"), PyList(<<>>), PyStr("step_{next}"), "step", {}),
   Arguments(PyList(<<"step_{iter}">>), PyStr("id"), PyStr("step_{next}"), "step", {}),
   Arguments(PyList(<<"step_{iter}">>), PyList(<<>>), PyInt, "step", {})}

\* The names requested once generators are registered.
GeneratedNames == {"C", "step_start", "step_0", "step_1"}

\* The state after "from quiche import dep": nothing is registered.
RegisterInit == Imported(<<>>)

\* The module global CACHE_FILE after set_cache_file(fn): the assignment of
\* line 42 binds a name local to the function (there is no global
\* statement), which is dropped at the return.
set_cache_file_call(global, fn) ==
  LET local == [CACHE_FILE |-> fn]
  IN global

set_cache_file(fn) ==
  /\ pc = "idle"
  /\ CACHE_FILE' = set_cache_file_call(CACHE_FILE, fn)
  /\ UNCHANGED <<KNOWN_TARGETS, TARGET_ALIASES, TARGET_GENERATORS, CACHED_VALUES,
                 shelf, files, clock, pc, walk, call>>

\* Plain tasks declared and created, and the cache file set.
TaskNext ==
  \/ \E x \in TaskArguments :
       task(x.inputs, x.params, x.output, x.function, x.flags)
  \/ \E target \in {"B", "C"}, params \in {{}, {<<"value", 3>>}} :
       create(target, params, {})
  \/ \E fn \in FileNames : set_cache_file(fn)

TaskSpec == RegisterInit /\ [][TaskNext]_vars

RegisterNext ==
  \/ \E x \in PlainArguments :
       task(x.inputs, x.params, x.output, x.function, x.flags)
  \/ \E x \in TemplateArguments :
       template_task(x.inputs, x.params, x.output, x.function, x.flags)
  \/ \E x \in IterArguments :
       iter_task(x.inputs, x.params, x.output, x.function, x.flags)
  \/ \E target \in GeneratedNames : create(target, {}, {})

RegisterSpec == RegisterInit /\ [][RegisterNext]_vars

(* ------------------------------ properties ---------------------------- *)

\* The state a further call starts in when the call with outcome r has
\* returned: the clock may advance before its tickAt-th read.
After(r, tickAt) == [r.st EXCEPT !.reads = 0, !.tickAt = tickAt, !.calls = <<>>]

\* The clock advances a call may see, as in Complete.
Ticks(c) == TickPoints(Run(c, Start(0)).st.reads)

Registered == DOMAIN KNOWN_TARGETS

Request(target, params, knockout) ==
  [op |-> "create", target |-> target, params |-> params, knockout |-> knockout]

\* The targets of S with their inputs, and theirs.
RECURSIVE Closure(_)
Closure(S) ==
  LET more == S \cup UNION {{KNOWN_TARGETS[u].inputs[i] :
                               i \in 1..Len(KNOWN_TARGETS[u].inputs)} :
                            u \in S \cap Registered}
  IN IF more = S THEN S ELSE Closure(more)

\* A target cache_value stores in neither tier.
StoredNowhere(u) == u \in Registered /\ Flags \subseteq KNOWN_TARGETS[u].flags

\* The second of two successive create(t, params): no function invoked and,
\* when the first returned, the same pair, whenever the clock advances.
SameAgain(t, params, first) ==
  \A tick2 \in 0..MaxTickAt :
    \E second \in {create_call(Reg, t, params, {}, After(first, tick2))} :
      /\ second.st.calls = <<>>
      /\ first.kind = "ok" =>
           second.kind = "ok" /\ second.ts = first.ts /\ second.val = first.val

\* C1: for every registered target t and every params map, create(t,
\* params) is idempotent: the same call made right after it invokes no task
\* function and returns the identical (ts, value) pair.
C1_CreateIdempotent ==
  pc = "idle" =>
    \A t \in Registered, params \in ParamMaps :
      \A tick1 \in Ticks(Request(t, params, {})) :
        \E first \in {create_call(Reg, t, params, {}, Start(tick1))} :
          SameAgain(t, params, first)

\* C1 where every target t needs is stored in some tier: a create(t, params)
\* that returns is followed by one that returns the same pair and invokes
\* no task function.
C1_IdempotentWhenStored ==
  pc = "idle" =>
    \A t \in Registered, params \in ParamMaps :
      (\A u \in Closure({t}) : ~StoredNowhere(u)) =>
        \A tick1 \in Ticks(Request(t, params, {})) :
          \E first \in {create_call(Reg, t, params, {}, Start(tick1))} :
            first.kind = "ok" => SameAgain(t, params, first)

\* C1 happens: with a cache that already holds entries, a create invokes
\* some task functions but not all of its target's inputs', returns, and
\* the same call made again returns the same pair without invoking any.
C1_Witness ==
  /\ pc = "idle"
  /\ CACHED_VALUES # <<>>
  /\ \E t \in Registered, params \in ParamMaps :
       \E first \in {create_call(Reg, t, params, {}, Start(1))} :
         /\ first.kind = "ok"
         /\ first.st.calls # <<>>
         /\ KNOWN_TARGETS[t].inputs # <<>>
         /\ \A k \in 1..Len(first.st.calls) :
              first.st.calls[k].target # KNOWN_TARGETS[t].inputs[1]
         /\ SameAgain(t, params, first)

\* relevant(t): the parameters declared by t or by a transitive input.
Relevant(t) == gather_relevant_parameters(Reg, t, 1).rv

\* p1 and p2 bind different values to some parameter of relevant(t).
BindDifferently(t, p1, p2) ==
  \E i \in 1..Len(Relevant(t)) :
    /\ ParamsHas(p1, Relevant(t)[i])
    /\ ParamsHas(p2, Relevant(t)[i])
    /\ ParamsGet(p1, Relevant(t)[i]) # ParamsGet(p2, Relevant(t)[i])

\* C2: params maps that bind different values to a relevant parameter of t
\* give distinct full target keys, and a create under one map, made right
\* after a create under the other, returns a different value (its own).
C2_DistinctBindingsDistinctKeys ==
  pc = "idle" =>
    \A t \in Registered, p1 \in ParamMaps, p2 \in ParamMaps :
      BindDifferently(t, p1, p2) =>
        /\ mix_target(t, Relevant(t), p1) # mix_target(t, Relevant(t), p2)
        /\ \E first \in {create_call(Reg, t, p1, {}, Start(0))} :
             \E second \in {create_call(Reg, t, p2, {}, After(first, 0))} :
               first.kind = "ok" /\ second.kind = "ok" => second.val # first.val

\* The keyword arguments of the task functions a call invoked, in order.
Bindings(r) == [k \in 1..Len(r.st.calls) |-> <<r.st.calls[k].target, r.st.calls[k].kw>>]

\* C3: two params maps that serialize to the same bytes for relevant(t), and
\* so to the same full target key, make create(t) pass the same parameter
\* bindings to the task functions it invokes (a map that omits a parameter
\* and one that binds it to None included).
C3_KeyDeterminesBindings ==
  pc = "idle" =>
    \A t \in Registered, p1 \in ParamMaps, p2 \in ParamMaps :
      params__bytes(Relevant(t), p1) = params__bytes(Relevant(t), p2) =>
        Bindings(create_call(Reg, t, p1, {}, Start(0)))
          = Bindings(create_call(Reg, t, p2, {}, Start(0)))

\* The call with outcome r invoked the task function of t.
Invoked(r, t) == \E k \in 1..Len(r.st.calls) : r.st.calls[k].target = t

\* The call with outcome r invoked nothing after the task function of t.
InvokedLast(r, t) ==
  r.st.calls # <<>> /\ r.st.calls[Len(r.st.calls)].target = t

IsChain ==
  /\ Registered = {"A", "B", "C"}
  /\ KNOWN_TARGETS["A"].inputs = <<"B">>
  /\ KNOWN_TARGETS["B"].inputs = <<"C">>
  /\ KNOWN_TARGETS["C"].inputs = <<>>

\* A, B and C are cached and fresh: create("A") returns and invokes nothing.
ChainFresh ==
  /\ pc = "idle"
  /\ IsChain
  /\ \E fresh \in {create_call(Reg, "A", {}, {}, Start(0))} :
       fresh.kind = "ok" /\ fresh.st.calls = <<>>

\* The targets whose functions the call with outcome r invoked, in order.
Order(r) == [k \in 1..Len(r.st.calls) |-> r.st.calls[k].target]

\* The timestamp the state st holds for the target t of the chain.
TimeOf(st, t) == get_cache_time(st, t, <<>>, {})

\* The entries the state st holds for the target t of the chain.
EntriesOf(st, t) ==
  LET full_target == mix_target(t, <<>>, {})
  IN <<IF full_target \in DOMAIN st.mem THEN {st.mem[full_target]} ELSE {},
       IF full_target \in DOMAIN st.disk THEN {st.disk[full_target]} ELSE {}>>

\* C5 as stated: with A, B and C cached and fresh, create("A", knockout =
\* {"C"}) invokes the functions of C, B and A, in that order, and each of
\* the three gets a timestamp newer than the one it had.
C5_KnockoutRebuildsChain ==
  ChainFresh =>
    \A tick \in Ticks(Request("A", {}, {"C"})) :
      \E r \in {create_call(Reg, "A", {}, {"C"}, Start(tick))} :
        /\ r.kind = "ok"
        /\ Order(r) = <<"C", "B", "A">>
        /\ \A t \in Registered : TimeOf(r.st, t) > TimeOf(Start(0), t)

\* C5 as the code has it: with A, B and C cached and fresh, create("A",
\* knockout = {"C"}) always invokes the function of C first; B and then A
\* follow, in that order, only while the timestamp of the rebuilt input is
\* strictly greater than their own.  When the clock advances before C is
\* stored, all three are invoked, C then B then A, and get strictly newer
\* timestamps; when the clock still reads what it read when B was cached,
\* only C is invoked and B and A keep their entries.  A target that is
\* invoked never gets an older timestamp, one that is not keeps its entries,
\* and so does one flagged both ephemeral and volatile, which is stored in
\* neither tier.
C5_KnockoutRebuildsNewer ==
  ChainFresh =>
    \A tick \in Ticks(Request("A", {}, {"C"})) :
      \E r \in {create_call(Reg, "A", {}, {"C"}, Start(tick))} :
        /\ r.kind = "ok"
        /\ Order(r) \in {<<"C">>, <<"C", "B">>, <<"C", "B", "A">>}
        /\ \A t \in Registered :
             IF Invoked(r, t)
               THEN TimeOf(r.st, t) >= TimeOf(Start(0), t)
               ELSE EntriesOf(r.st, t) = EntriesOf(Start(0), t)
        /\ \A t \in {"A", "B"} :
             Invoked(r, t) => TimeOf(r.st, t) > TimeOf(Start(0), t)
        /\ tick = 1 =>
             /\ Order(r) = <<"C", "B", "A">>
             /\ \A t \in Registered :
                  IF StoredNowhere(t)
                    THEN EntriesOf(r.st, t) = EntriesOf(Start(0), t)
                    ELSE TimeOf(r.st, t) > TimeOf(Start(0), t)
        /\ tick = 0 /\ clock = TimeOf(Start(0), "B") => Order(r) = <<"C">>

\* C5 happens: the chain is cached and fresh, and create("A", knockout =
\* {"C"}) invokes C, B and A when the clock advances first, and only C when
\* the clock stands still.
C5_Witness ==
  /\ ChainFresh
  /\ clock = TimeOf(Start(0), "B")
  /\ Order(create_call(Reg, "A", {}, {"C"}, Start(1))) = <<"C", "B", "A">>
  /\ Order(create_call(Reg, "A", {}, {"C"}, Start(0))) = <<"C">>

\* C6: within one create call the task function of a full target key is
\* invoked at most once, whatever the shape of the dependency graph and
\* whatever the knockout list.
C6_AtMostOncePerCreate ==
  pc = "idle" =>
    \A t \in Registered, params \in ParamMaps, knockout \in Knockouts :
      \A tick \in Ticks(Request(t, params, knockout)) :
        \E r \in {create_call(Reg, t, params, knockout, Start(tick))} :
          \A j \in 1..Len(r.st.calls), k \in 1..Len(r.st.calls) :
            r.st.calls[j].key = r.st.calls[k].key => j = k

\* The name is registered with the flag.
HasFlag(t, flag) == t \in DOMAIN KNOWN_TARGETS /\ flag \in KNOWN_TARGETS[t].flags

\* C7 as stated: the persistent map holds no entry under a full key of a
\* target that is registered with the flag ephemeral.
C7_EphemeralNeverOnDisk ==
  pc = "idle" =>
    \A t \in Registered, params \in ParamMaps :
      HasFlag(t, "ephemeral") =>
        mix_target(t, Relevant(t), params) \notin DOMAIN shelf

\* A step wrote the entry of full_target in the persistent map.
Written(full_target) ==
  /\ full_target \in DOMAIN shelf'
  /\ full_target \in DOMAIN shelf => shelf'[full_target] # shelf[full_target]

\* C7 for the writes alone: no create, create_brave or add_object writes an
\* entry of the persistent map under a full key of a target that is
\* registered with the flag ephemeral when the call returns, and no call
\* removes an entry: what the map holds under the name of an ephemeral
\* target was written while the name was registered without the flag.
C7_EphemeralNeverWritten ==
  [][/\ \A full_target \in DOMAIN shelf' :
          Written(full_target) =>
            /\ full_target[1] \in DOMAIN KNOWN_TARGETS'
            /\ "ephemeral" \notin KNOWN_TARGETS'[full_target[1]].flags
     /\ DOMAIN shelf \subseteq DOMAIN shelf']_vars

\* C7 happens: an ephemeral target has been created (its value is in
\* memory), other targets have been written to the persistent map, and the
\* map holds nothing under the ephemeral target's name.
C7_Witness ==
  /\ shelf # <<>>
  /\ \E full_target \in DOMAIN CACHED_VALUES :
       /\ HasFlag(full_target[1], "ephemeral")
       /\ \A on_disk \in DOMAIN shelf : on_disk[1] # full_target[1]

\* C8: after every store (a rebuild by create or create_brave, add_object)
\* the in-memory table holds no entry under a full key of a target
\* registered with the flag volatile, and a create of such a target leaves
\* none and, when it returns, returns the entry of the persistent map.
C8_VolatileNeverInMemory ==
  /\ pc = "idle" =>
       \A t \in Registered, params \in ParamMaps :
         HasFlag(t, "volatile") =>
           mix_target(t, Relevant(t), params) \notin DOMAIN CACHED_VALUES
  /\ pc = "idle" =>
       \A t \in Registered, params \in ParamMaps, knockout \in Knockouts :
         HasFlag(t, "volatile") =>
           \A tick \in Ticks(Request(t, params, knockout)) :
             \E r \in {create_call(Reg, t, params, knockout, Start(tick))} :
               \E full_target \in {mix_target(t, Relevant(t), params)} :
                 /\ full_target \notin DOMAIN r.st.mem
                 /\ r.kind = "ok" =>
                      /\ full_target \in DOMAIN r.st.disk
                      /\ r.st.disk[full_target] = [ts |-> r.ts, val |-> r.val]

\* C8 happens: a volatile target has been created and stored (its entry is
\* in the persistent map), memory holds entries of other targets, and a
\* create with the target knocked out stores it again and returns.
C8_Witness ==
  /\ pc = "idle"
  /\ CACHED_VALUES # <<>>
  /\ \E t \in Registered :
       /\ HasFlag(t, "volatile")
       /\ \E full_target \in DOMAIN shelf : full_target[1] = t
       /\ \E r \in {create_call(Reg, t, {}, {t}, Start(1))} :
            r.kind = "ok" /\ Invoked(r, t)

\* C9: when get_cached finds an entry for the full key of t in either
\* tier, create_brave(t, params, knockout) returns exactly that entry,
\* invokes no task function, reads no clock and leaves both tiers as they
\* are, whatever the knockout list and the timestamps; and the timestamp it
\* returns is never newer than the one create(t, params) returns.
C9_BraveReturnsCached ==
  pc = "idle" =>
    \A t \in Registered, params \in ParamMaps, knockout \in Knockouts :
      \E got \in {get_cached(Start(0), t, Relevant(t), params)} :
        got.val # NotAvailable =>
          \A tick \in 0..1 :
            \E r \in {create_brave_call(Reg, t, params, knockout, Start(tick))} :
              /\ r.kind = "ok" /\ r.ts = got.ts /\ r.val = got.val
              /\ r.st.calls = <<>> /\ r.st.reads = 0
              /\ r.st.mem = CACHED_VALUES /\ r.st.disk = shelf /\ r.st.clock = clock
              /\ \A tick2 \in Ticks(Request(t, params, {})) :
                   \E c \in {create_call(Reg, t, params, {}, Start(tick2))} :
                     c.kind = "ok" => r.ts <= c.ts

\* C9 happens: t is cached but out of date, create_brave(t, knockout = {t})
\* returns the cached entry, and create(t) rebuilds t and returns a newer one.
C9_Witness ==
  /\ pc = "idle"
  /\ \E t \in Registered :
       \E r \in {create_brave_call(Reg, t, {}, {t}, Start(1))} :
         \E c \in {create_call(Reg, t, {}, {}, Start(1))} :
           /\ get_cached(Start(0), t, Relevant(t), {}).val # NotAvailable
           /\ r.kind = "ok" /\ r.st.calls = <<>>
           /\ c.kind = "ok" /\ Invoked(c, t) /\ c.ts > r.ts

\* C10: a create that has entered the alias loop of find_target leaves it:
\* the call returns or raises, also when the aliases form a cycle.
C10_AliasWalkTerminates == (pc = "find_target") ~> (pc = "idle")

\* A cycle of the inputs relation can be reached from t.
ReachesCycle(t) ==
  \E u \in Closure({t}) \cap Registered :
    u \in Closure({KNOWN_TARGETS[u].inputs[i] : i \in 1..Len(KNOWN_TARGETS[u].inputs)})

\* C11: when a cycle of the inputs relation can be reached from t,
\* create(t) ends by reporting CycleDetected, and no task function is
\* invoked.
C11_CycleDetected ==
  pc = "idle" =>
    \A t \in Registered, knockout \in Knockouts :
      ReachesCycle(t) =>
        \E r \in {create_call(Reg, t, {}, knockout, Start(0))} :
          r.kind = "CycleDetected" /\ r.st.calls = <<>>

\* C11, what the code does: the recursion of gather_relevant_parameters
\* goes on until the interpreter's recursion limit ends it; the call raises
\* RecursionError before any task function is invoked and before either
\* tier is touched.
C11_RecursionError ==
  pc = "idle" =>
    \A t \in Registered, knockout \in Knockouts :
      ReachesCycle(t) =>
        \E r \in {create_call(Reg, t, {}, knockout, Start(0))} :
          /\ r.kind = "RecursionError" /\ r.st.calls = <<>>
          /\ r.st.mem = CACHED_VALUES /\ r.st.disk = shelf

\* The alias a resolves, through an acyclic chain of aliases, to the
\* registered target t.
ResolvesTo(a, t) ==
  /\ a \in DOMAIN TARGET_ALIASES
  /\ t \in Registered
  /\ AliasWalk(TARGET_ALIASES, a, Cardinality(DOMAIN TARGET_ALIASES) + 1) = t

\* C12: for an alias a that resolves to the target t, create(a) returns
\* the value create(t) returns, also when a is the name of a registered
\* target as well; and find_target(a) is the descriptor of t.
C12_AliasSameValue ==
  pc = "idle" =>
    \A a \in DOMAIN TARGET_ALIASES, t \in Registered :
      ResolvesTo(a, t) =>
        /\ find_target(Reg, a) = find_target(Reg, t)
        /\ \E byAlias \in {create_call(Reg, a, {}, {}, Start(0))} :
             \E direct \in {create_call(Reg, t, {}, {}, Start(0))} :
               /\ byAlias.kind = "ok" /\ direct.kind = "ok"
               /\ byAlias.val = direct.val

\* C12, what the code does: find_target(a) is the descriptor of t (aliases
\* are looked up before known targets), while every cache entry is keyed by
\* the requested name a and looked up under that name.
C12_AliasSameDescriptor ==
  pc = "idle" =>
    \A a \in DOMAIN TARGET_ALIASES, t \in Registered :
      ResolvesTo(a, t) =>
        /\ find_target(Reg, a) = find_target(Reg, t)
        /\ \E byAlias \in {create_call(Reg, a, {}, {}, Start(0))} :
             byAlias.kind = "ok" =>
               mix_target(a, Relevant(t), {}) \in
                 DOMAIN byAlias.st.mem \cup DOMAIN byAlias.st.disk
                   \cup {k \in {mix_target(a, Relevant(t), {})} :
                            HasFlag(t, "ephemeral") /\ HasFlag(t, "volatile")}

\* The names of the list rv.
Elements(rv) == {rv[i] : i \in 1..Len(rv)}

\* rv is sorted and holds no name twice.
SortedUnique(rv) == \A i \in 1..(Len(rv) - 1) : StrLess(rv[i], rv[i + 1])

\* The targets gather_relevant_parameters returns a list of parameter names
\* for (and not the characters of a string given for a list).
Gathered ==
  {t \in Registered :
     \E g \in {gather_relevant_parameters(Reg, t, 1)} :
       g.err = "" /\ Elements(g.rv) \subseteq ParamNames}

\* C13: relevant(t) is the sorted list without repetition of the params
\* declared on t and of relevant(i) for each input i of t, whatever the order
\* t's own params are declared in.
C13_RelevantSortedUnion ==
  \A t \in Gathered :
    /\ SortedUnique(Relevant(t))
    /\ Elements(Relevant(t)) =
         Elements(KNOWN_TARGETS[t].params)
           \cup UNION {Elements(gather_relevant_parameters(Reg, KNOWN_TARGETS[t].inputs[i], 1).rv) :
                         i \in 1..Len(KNOWN_TARGETS[t].inputs)}

\* C13, what the code does: the list holds the names of that union, and it
\* is sorted without repetition when t's own params are declared so: the
\* own params are copied as declared and only the inputs' are inserted in
\* order.
C13_SortedWhenDeclaredSorted ==
  \A t \in Gathered :
    /\ Elements(Relevant(t)) =
         Elements(KNOWN_TARGETS[t].params)
           \cup UNION {Elements(gather_relevant_parameters(Reg, KNOWN_TARGETS[t].inputs[i], 1).rv) :
                         i \in 1..Len(KNOWN_TARGETS[t].inputs)}
    /\ SortedUnique(KNOWN_TARGETS[t].params) => SortedUnique(Relevant(t))

\* The decorator calls of the model.
DecoratorCalls ==
  TaskArguments \cup PlainArguments \cup TemplateArguments \cup IterArguments

\* The call r left an error and both registries as they were.
Rejected(r) ==
  /\ r.err # ""
  /\ r.known = KNOWN_TARGETS
  /\ r.generators = TARGET_GENERATORS

\* C14: task, template_task and iter_task each raise, and change neither
\* registry, when inputs is no list or tuple, when params is no list or
\* tuple, and when output is no string.
C14_RejectIllTyped ==
  \A x \in DecoratorCalls :
    (~IsSequence(x.inputs) \/ ~IsSequence(x.params) \/ ~IsString(x.output)) =>
      /\ Rejected(task_call(Reg, x.inputs, x.params, x.output, x.function, x.flags))
      /\ Rejected(template_task_call(Reg, x.inputs, x.params, x.output,
                                     x.function, x.flags))
      /\ Rejected(iter_task_call(Reg, x.inputs, x.params, x.output, x.function,
                                 x.flags))

\* C14, what the code does: template_task rejects all three; task and
\* iter_task reject inputs and output of the wrong type but register a
\* target whose params is a string.
C14_RejectIllTypedInputsOutput ==
  \A x \in DecoratorCalls :
    /\ (~IsSequence(x.inputs) \/ ~IsSequence(x.params) \/ ~IsString(x.output)) =>
         Rejected(template_task_call(Reg, x.inputs, x.params, x.output,
                                     x.function, x.flags))
    /\ (~IsSequence(x.inputs) \/ ~IsString(x.output)) =>
         /\ Rejected(task_call(Reg, x.inputs, x.params, x.output, x.function, x.flags))
         /\ Rejected(iter_task_call(Reg, x.inputs, x.params, x.output, x.function,
                                    x.flags))
    /\ (IsSequence(x.inputs) /\ ~IsSequence(x.params) /\ IsString(x.output)) =>
         /\ task_call(Reg, x.inputs, x.params, x.output, x.function, x.flags).err = ""
         /\ Format(x.output.text, ("iter" :> "0") @@ ("next" :> "0")).err = "" =>
              iter_task_call(Reg, x.inputs, x.params, x.output, x.function,
                             x.flags).err = ""

\* The contents of the shelve file named fn in the state st.
FileOf(st, fn) == IF fn = DefaultCacheFile THEN st.disk ELSE st.files[fn]

\* The state a call starts in once set_cache_file(fn) has returned.
StartAfterSet(fn) ==
  [Start(0) EXCEPT !.file = set_cache_file_call(CACHE_FILE, fn)]

\* C15: after set_cache_file(fn) the store is the file fn: a create that
\* builds a target not flagged ephemeral writes its entry to fn and then
\* reads it there, and a file that was the store before is left as it is.
C15_CacheFileSet ==
  pc = "idle" =>
    \A fn \in FileNames, t \in Registered :
      \E r \in {create_call(Reg, t, {}, {t}, StartAfterSet(fn))} :
        (r.kind = "ok" /\ Invoked(r, t) /\ ~HasFlag(t, "ephemeral")) =>
          /\ mix_target(t, Relevant(t), {}) \in DOMAIN FileOf(r.st, fn)
          /\ r.st.file = fn
          /\ \A old \in FileNames \ {fn} : FileOf(r.st, old) = FileOf(Start(0), old)

\* C15, what the code does: set_cache_file changes nothing; CACHE_FILE names
\* the file it named when the module was imported, and no other file is
\* ever written.
C15_CacheFileNeverChanges ==
  /\ CACHE_FILE = DefaultCacheFile
  /\ \A fn \in FileNames \ {DefaultCacheFile} : files[fn] = <<>>
  /\ \A fn \in FileNames : set_cache_file_call(CACHE_FILE, fn) = DefaultCacheFile

\* The k-th task function the call with outcome r invoked raised.
RaisedAt(r, k) ==
  Raises([function |-> r.st.calls[k].function], r.st.calls[k].args, r.st.calls[k].kw)

\* C16: when a task function raises during create, the call ends with that
\* error, raised for the target whose function it is; no task function is
\* invoked after the one that raised; and the entries of the failing
\* target's full key are in both tiers what they were before the call.
C16_TaskErrorPropagates ==
  pc = "idle" =>
    \A t \in Registered, knockout \in Knockouts, tickAt \in 0..MaxTickAt :
      \E r \in {create_call(Reg, t, {}, knockout, Start(tickAt))} :
        /\ \A k \in 1..Len(r.st.calls) :
             RaisedAt(r, k) =>
               /\ r.kind = "TaskError" /\ r.at = r.st.calls[k].target
               /\ k = Len(r.st.calls)
        /\ r.kind = "TaskError" =>
             /\ InvokedLast(r, r.at)
             /\ RaisedAt(r, Len(r.st.calls))
             /\ EntriesOf(r.st, r.at) = EntriesOf(Start(0), r.at)

\* C16 happens: B is cached, C has been replaced by an object for which the
\* function of B raises, and create("A") ends with the error of B after the
\* function of C's replacement was or was not invoked, A's never.
C16_Witness ==
  /\ pc = "idle"
  /\ EntriesOf(Start(0), "B") # <<{}, {}>>
  /\ \E knockout \in Knockouts :
       \E r \in {create_call(Reg, "A", {}, knockout, Start(0))} :
         /\ r.kind = "TaskError" /\ r.at = "B"
         /\ ~Invoked(r, "A")
         /\ EntriesOf(r.st, "B") = EntriesOf(Start(0), "B")

\* The task function of t returned a value during the call with outcome r.
Returned(r, t) ==
  \E k \in 1..Len(r.st.calls) : r.st.calls[k].target = t /\ ~RaisedAt(r, k)

\* C17: task rejects flags that hold both ephemeral and volatile, so no
\* registered target has both; and whenever the task function of a
\* registered target has returned a value during a create, that value is
\* stored in one tier at least.
C17_BothFlagsRejected ==
  pc = "idle" =>
    /\ \A x \in TaskArguments :
         Flags \subseteq x.flags =>
           Rejected(task_call(Reg, x.inputs, x.params, x.output, x.function, x.flags))
    /\ \A t \in Registered : ~StoredNowhere(t)
    /\ \A t \in Registered, params \in {{}, {<<"value", 3>>}} :
         \E r \in {create_call(Reg, t, params, {t}, Start(0))} :
           Returned(r, t) =>
             mix_target(t, Relevant(t), params) \in DOMAIN r.st.mem \cup DOMAIN r.st.disk

\* C17, what the code does: both flags are registered as given; create of
\* such a target without inputs invokes its function, stores the value
\* nowhere and raises the ValueError of line 501.
C17_BothFlagsBuildFailed ==
  pc = "idle" =>
    /\ \A x \in TaskArguments :
         (IsSequence(x.inputs) /\ IsString(x.output)) =>
           task_call(Reg, x.inputs, x.params, x.output, x.function, x.flags).err = ""
    /\ \A t \in Registered, params \in {{}, {<<"value", 3>>}} :
         (StoredNowhere(t) /\ KNOWN_TARGETS[t].inputs = <<>>) =>
           \E r \in {create_call(Reg, t, params, {}, Start(0))} :
             /\ r.kind = "BuildFailed" /\ r.at = t /\ Returned(r, t)
             /\ r.st.mem = CACHED_VALUES /\ r.st.disk = shelf

\* The generators, by position, that match the name and whose gen_target
\* returns a descriptor for it.
Usable(name) ==
  {i \in 1..Len(TARGET_GENERATORS) :
     \E m \in {Match(TARGET_GENERATORS[i].tre, name)} :
       m.hit /\ gen_target(TARGET_GENERATORS[i], m.gd, name).err = ""}

\* The descriptor the i-th generator makes for the name.
Generated(i, name) ==
  gen_target(TARGET_GENERATORS[i], Match(TARGET_GENERATORS[i].tre, name).gd, name).desc

\* C18: a name that is a known target resolves to its descriptor, whatever
\* the generators are; any other name resolves to the descriptor made by the
\* first generator, in the order of insertion, that matches the name and
\* whose factory does not raise; and to the error "Unknown target" when
\* there is none.
C18_FirstGeneratorWins ==
  pc = "idle" =>
    \A name \in GeneratedNames \cup {"step_2"} :
      \E f \in {find_target(Reg, name)} :
        IF name \in DOMAIN KNOWN_TARGETS
          THEN f.status = "ok" /\ f.desc = KNOWN_TARGETS[name]
        ELSE IF Usable(name) = {}
          THEN f.status = "UnknownTarget"
        ELSE \E i \in Usable(name) :
               /\ \A j \in Usable(name) : i <= j
               /\ f.status = "ok" /\ f.desc = Generated(i, name)

\* C18 happens: step_0 is a known target that a generator matches as well,
\* and step_1 is matched by a generator whose factory raises and, later in
\* the order, by one whose descriptor find_target returns.
C18_Witness ==
  /\ pc = "idle"
  /\ "step_0" \in DOMAIN KNOWN_TARGETS /\ Usable("step_0") # {}
  /\ "step_1" \notin DOMAIN KNOWN_TARGETS
  /\ \E i \in 1..Len(TARGET_GENERATORS), j \in Usable("step_1") :
       /\ i < j /\ i \notin Usable("step_1")
       /\ Match(TARGET_GENERATORS[i].tre, "step_1").hit
       /\ \A k \in Usable("step_1") : j <= k
       /\ find_target(Reg, "step_1").desc = Generated(j, "step_1")

\* cache_value of the object obj for the registered target t, the clock
\* advancing before the tickAt-th read.
Stored(t, obj, tickAt) ==
  cache_value(Start(tickAt), t, Relevant(t), {}, obj, KNOWN_TARGETS[t].flags)

\* C19: the timestamp cache_value returns is the timestamp of the entry it
\* writes to the persistent map (unless ephemeral) and to the in-memory
\* table (unless volatile), and the one get_cache_time and get_cached
\* report for the key right afterwards.
C19_OneTimestamp ==
  pc = "idle" =>
    \A t \in Registered, obj \in Objects, tickAt \in 0..2 :
      \E stored \in {Stored(t, obj, tickAt)} :
        \E full_target \in {mix_target(t, Relevant(t), {})} :
          /\ ~HasFlag(t, "ephemeral") =>
               /\ full_target \in DOMAIN stored.st.disk
               /\ stored.st.disk[full_target].ts = stored.ts
          /\ ~HasFlag(t, "volatile") =>
               /\ full_target \in DOMAIN stored.st.mem
               /\ stored.st.mem[full_target].ts = stored.ts
          /\ ~StoredNowhere(t) =>
               /\ get_cache_time(stored.st, t, Relevant(t), {}) = stored.ts
               /\ get_cached(stored.st, t, Relevant(t), {}).ts = stored.ts

\* C19, what the code does: the entry of the persistent map is stamped by
\* cache.save_object with its own clock read, made before the read whose
\* value cache_value returns and puts in memory: the timestamp on disk is
\* never later than the one returned, and the one in memory is the one
\* returned.
C19_DiskNotLater ==
  pc = "idle" =>
    \A t \in Registered, obj \in Objects, tickAt \in 0..2 :
      \E stored \in {Stored(t, obj, tickAt)} :
        \E full_target \in {mix_target(t, Relevant(t), {})} :
          /\ ~HasFlag(t, "ephemeral") =>
               /\ full_target \in DOMAIN stored.st.disk
               /\ stored.st.disk[full_target].ts <= stored.ts
               /\ tickAt # 2 => stored.st.disk[full_target].ts = stored.ts
          /\ ~HasFlag(t, "volatile") =>
               /\ full_target \in DOMAIN stored.st.mem
               /\ stored.st.mem[full_target].ts = stored.ts

\* The state st holds nothing under the full key of u without parameters
\* bound.
NoEntries(st, u) ==
  \E full_target \in {mix_target(u, Relevant(u), {})} :
    full_target \notin DOMAIN st.mem \cup DOMAIN st.disk

\* The state st holds under the full key of u what the current state holds.
SameEntries(st, u) ==
  \E full_target \in {mix_target(u, Relevant(u), {})} :
    /\ full_target \in DOMAIN st.mem <=> full_target \in DOMAIN CACHED_VALUES
    /\ full_target \in DOMAIN st.mem => st.mem[full_target] = CACHED_VALUES[full_target]
    /\ full_target \in DOMAIN st.disk <=> full_target \in DOMAIN shelf
    /\ full_target \in DOMAIN st.disk => st.disk[full_target] = shelf[full_target]

\* The registered targets that have i among their inputs.
Consumers(i) ==
  {u \in Registered :
     \E k \in 1..Len(KNOWN_TARGETS[u].inputs) : KNOWN_TARGETS[u].inputs[k] = i}

\* C20: a create that finds the value of an input i in neither tier when
\* it loads it for the rebuild of a target raises the error naming i; the
\* task function of the target being rebuilt is not invoked and its entries
\* are left as they were; and no task function is ever handed NotAvailable
\* as the value of an input.
C20_MissingDependency ==
  pc = "idle" =>
    \A t \in Registered, knockout \in Knockouts, tickAt \in 0..MaxTickAt :
      \E r \in {create_call(Reg, t, {}, knockout, Start(tickAt))} :
        /\ \A k \in 1..Len(r.st.calls) :
             \A n \in 1..Len(r.st.calls[k].args) :
               r.st.calls[k].args[n] # NotAvailable
        /\ r.kind = "MissingDependency" =>
             /\ get_cached(r.st, r.at, Relevant(r.at), {}).val = NotAvailable
             /\ \E u \in Consumers(r.at) \cap Closure({t}) :
                  ~Invoked(r, u) /\ SameEntries(r.st, u)

\* C20 happens: B is cached, its input C is stored nowhere, and create("A")
\* ends with the error naming C after the function of C ran; B's entries
\* stay.
C20_Witness ==
  /\ pc = "idle"
  /\ IsChain
  /\ ~NoEntries(Start(0), "B")
  /\ \E knockout \in Knockouts, tickAt \in 0..MaxTickAt :
       \E r \in {create_call(Reg, "A", {}, knockout, Start(tickAt))} :
         /\ r.kind = "MissingDependency" /\ r.at = "C"
         /\ Invoked(r, "C") /\ ~Invoked(r, "B") /\ SameEntries(r.st, "B")

\* The generators, by position, that iter_task makes of the output
\* "step_{next}" and the input "step_{iter}".
StepGenerators ==
  {i \in 1..Len(TARGET_GENERATORS) :
     /\ TARGET_GENERATORS[i].kind = "iter"
     /\ TARGET_GENERATORS[i].tre = IterPattern("step_{next}")
     /\ TARGET_GENERATORS[i].inputs = <<"step_{iter}">>}

\* The name step_n.
StepName(n) == Name("step_", Numeral(n))

\* The numbers n of the names step_n.
StepNumbers == {Decimal[d] : d \in DOMAIN Decimal}

\* C21: the generator iter_task makes of the output "step_{next}" and the
\* input "step_{iter}" matches every step_n and not step_start; the descriptor
\* it makes for step_n has the one input step_(n-1) when n > 0 and step_start
\* when n = 0, so the chain of inputs from step_n ends after n + 1 steps; and
\* whenever find_target resolves step_n to that descriptor and create of
\* step_n succeeds, the task function was called with n as first argument,
\* before the value of the input.
C21_IterChain ==
  pc = "idle" =>
    \A i \in StepGenerators :
      /\ ~Match(TARGET_GENERATORS[i].tre, "step_start").hit
      /\ \A n \in StepNumbers :
           /\ Match(TARGET_GENERATORS[i].tre, StepName(n)).hit
           /\ i \in Usable(StepName(n))
           /\ Generated(i, StepName(n)).inputs =
                <<IF n > 0 THEN StepName(n - 1) ELSE "step_start">>
           /\ Generated(i, StepName(n)).lead = <<IntValue(n)>>
           /\ \E f \in {find_target(Reg, StepName(n))},
                 r \in {create_call(Reg, StepName(n), {}, {}, Start(0))} :
                (f.status = "ok" /\ f.desc = Generated(i, StepName(n)) /\ r.kind = "ok") =>
                  /\ r.val.f = TARGET_GENERATORS[i].function
                  /\ Len(r.val.args) = 2
                  /\ r.val.args[1] = IntValue(n)
                  /\ r.val.args[2] =
                       create_call(Reg, Generated(i, StepName(n)).inputs[1],
                                   {}, {}, Start(0)).val

\* C21 happens: the generator is registered, step_1 and step_0 resolve to
\* its descriptors, step_start to a descriptor of another generator, and a
\* create of step_1 has stored the value of the call with 1 and the value of
\* step_0, which is the value of the call with 0 and the value of step_start.
C21_Witness ==
  /\ pc = "idle"
  /\ \E i \in StepGenerators :
       /\ find_target(Reg, "step_1").desc = Generated(i, "step_1")
       /\ find_target(Reg, "step_0").desc = Generated(i, "step_0")
       /\ find_target(Reg, "step_start").status = "ok"
       /\ \E k \in DOMAIN CACHED_VALUES :
            /\ k[1] = "step_1"
            /\ CACHED_VALUES[k].val.f = "step"
            /\ Len(CACHED_VALUES[k].val.args) = 2
            /\ CACHED_VALUES[k].val.args[1] = IntValue(1)
            /\ CACHED_VALUES[k].val.args[2].f = "step"
            /\ Len(CACHED_VALUES[k].val.args[2].args) = 2
            /\ CACHED_VALUES[k].val.args[2].args[1] = IntValue(0)
            /\ CACHED_VALUES[k].val.args[2].args[2] =
                 create_call(Reg, "step_start", {}, {}, Start(0)).val

\* The inputs of the registered target u.
InputsOf(u) == {KNOWN_TARGETS[u].inputs[i] : i \in 1..Len(KNOWN_TARGETS[u].inputs)}

\* The timestamp get_cache_time gives in the state st for the target u under
\* the params map.
StampOf(st, u, params) == get_cache_time(st, u, Relevant(u), params)

\* In the state st no input of a target of t's closure has a timestamp
\* later than its consumer's.
Consistent(st, t, params) ==
  \A u \in Closure({t}) \cap Registered :
    \A i \in InputsOf(u) : ~(StampOf(st, i, params) > StampOf(st, u, params))

\* Some target of t's closure is registered with a flag.
Flagged(t) == \E u \in Closure({t}) \cap Registered : KNOWN_TARGETS[u].flags # {}

\* C22: after a create(t, params, knockout) that returns, no input in the
\* closure of t has a cached timestamp later than its consumer's, and a
\* create(t, params) made right after it invokes no task function; stated
\* for the targets whose closure has no flag, whatever the knockout set and
\* the shape of the graph.
C22_ConsistentAfterCreate ==
  pc = "idle" =>
    \A t \in Registered, params \in ParamMaps, knockout \in Knockouts :
      ~Flagged(t) =>
        \A tick \in Ticks(Request(t, params, knockout)) :
          \E first \in {create_call(Reg, t, params, knockout, Start(tick))} :
            first.kind = "ok" =>
              /\ Consistent(first.st, t, params)
              /\ \A tick2 \in 0..MaxTickAt :
                   create_call(Reg, t, params, {}, After(first, tick2)).st.calls = <<>>

\* Some target of t's closure is the input of two targets of the closure.
SharedInput(t) ==
  \E u \in Closure({t}) \cap Registered, v \in Closure({t}) \cap Registered :
    u # v /\ InputsOf(u) \cap InputsOf(v) # {}

\* What the code keeps of C22: when no target of t's closure has a flag and
\* either the knockout set is empty or no target of the closure is shared,
\* the timestamps are consistent after a create that returns and the create
\* made right after it invokes nothing.
C22_ConsistentUnshared ==
  pc = "idle" =>
    \A t \in Registered, params \in ParamMaps, knockout \in Knockouts :
      (~Flagged(t) /\ (knockout = {} \/ ~SharedInput(t))) =>
        \A tick \in Ticks(Request(t, params, knockout)) :
          \E first \in {create_call(Reg, t, params, knockout, Start(tick))} :
            first.kind = "ok" =>
              /\ Consistent(first.st, t, params)
              /\ \A tick2 \in 0..MaxTickAt :
                   create_call(Reg, t, params, {}, After(first, tick2)).st.calls = <<>>

\* The diamond without flags: create("A", knockout = {"D"}) returns after
\* the function of D ran twice, and D's timestamp is later than B's, so the
\* create("A") made right after it invokes the function of B, and that of
\* A when the clock has advanced before B is stored again.
C22_DiamondKnockout ==
  /\ pc = "idle"
  /\ DOMAIN KNOWN_TARGETS = {"A", "B", "C", "D"}
  /\ ~Flagged("A")
  /\ \E tick \in Ticks(Request("A", {}, {"D"})) :
       \E first \in {create_call(Reg, "A", {}, {"D"}, Start(tick))} :
         /\ first.kind = "ok"
         /\ StampOf(first.st, "D", {}) > StampOf(first.st, "B", {})
         /\ \A tick2 \in 0..MaxTickAt :
              \E second \in {create_call(Reg, "A", {}, {}, After(first, tick2))} :
                /\ second.kind = "ok"
                /\ Invoked(second, "B")
                /\ ~Invoked(second, "D") /\ ~Invoked(second, "C")
                /\ tick2 = 1 => Invoked(second, "A")

====
